---- MODULE Spec2Model ----
(***************************************************************************)
(* The noise-pollution dashboard of src/app.py, as a state machine.        *)
(*                                                                         *)
(* app.py is a Streamlit script: every change of a sidebar widget runs the *)
(* whole script again, top to bottom, against the values the widgets hold. *)
(* The state is the cached joined table, the values of the seven sidebar   *)
(* widgets, what the four period sliders were last registered with, the    *)
(* slider call (if any) at which the last run raised, and the row order of *)
(* the detailed violation report.  Every other output of a run is a        *)
(* function of these and is defined as an operator over them.              *)
(*                                                                         *)
(* Noise levels are integers (dB); a mean is kept as an exact fraction     *)
(* [num, den], and NaN is the value pandas/numpy give for the mean of no   *)
(* rows and for 0/0.                                                       *)
(***************************************************************************)
EXTENDS Integers, Sequences, FiniteSets

VARIABLES df, selected_city, selected_month, selected_types,
          session, raised, violation_table

vars == <<df, selected_city, selected_month, selected_types,
          session, raised, violation_table>>

----------------------------------------------------------------------------
(* Bounds of the model *)

\* most rows of data/station_month.csv
MaxRows == 3

----------------------------------------------------------------------------
(* Helpers *)

Max(a, b) == IF a >= b THEN a ELSE b
Min(a, b) == IF a <= b THEN a ELSE b

\* Python's range(a, b)
Range(a, b) == a .. (b - 1)

\* list(range(a, b))
RangeList(a, b) == [i \in 1 .. Max(0, b - a) |-> a + i - 1]

\* rows[col]: one column of a frame, as a series
Column(rows, col) == [i \in 1 .. Len(rows) |-> rows[i][col]]

RECURSIVE SumSeq(_)
\* Series.sum() of a numeric series
SumSeq(s) == IF s = <<>> THEN 0 ELSE Head(s) + SumSeq(Tail(s))

\* bool.astype(int)
AsInt(b) == IF b THEN 1 ELSE 0

\* Series.sum() of a boolean series: the number of rows where it is true
CountTrue(s) == SumSeq([i \in 1 .. Len(s) |-> AsInt(s[i])])

----------------------------------------------------------------------------
(* Floating-point results *)

NaN == [nan |-> TRUE, num |-> 0, den |-> 1]
Frac(n, d) == [nan |-> FALSE, num |-> n, den |-> d]

\* a / b on a numpy integer a: 0 / 0 is nan (a RuntimeWarning, no exception)
Divide(a, b) == IF b = 0 THEN NaN ELSE Frac(a, b)

\* x - y on floats; nan if either is
Minus(x, y) ==
    IF x.nan \/ y.nan THEN NaN
    ELSE Frac(x.num * y.den - y.num * x.den, x.den * y.den)

\* x * k
Times(x, k) == IF x.nan THEN NaN ELSE Frac(x.num * k, x.den)

\* Series.mean(): nan for an empty series
Mean(s) == Divide(SumSeq(s), Len(s))

\* x = y as numbers (nan equals nothing)
FracEq(x, y) == ~x.nan /\ ~y.nan /\ x.num * y.den = y.num * x.den

\* floor(n / d) for d > 0
FloorDiv(n, d) == n \div d

\* round-half-even of n / d to an integer (d > 0)
RoundHalfEven(n, d) ==
    LET q == FloorDiv(2 * n + d, 2 * d)
    IN IF (2 * n + d) % (2 * d) = 0 /\ q % 2 = 1 THEN q - 1 ELSE q

\* f"{x:.1f}": "nan" for nan, else x to one decimal (kept as tenths)
Format1(x) ==
    IF x.nan THEN [text |-> "nan", tenths |-> 0]
    ELSE [text |-> "number", tenths |-> RoundHalfEven(10 * x.num, x.den)]

----------------------------------------------------------------------------
(* load_data *)

\* data/stations.csv
stations_df ==
    << [Station |-> 1, Name |-> "Market", Type |-> "Commercial",
        City |-> "Delhi", DayLimit |-> 65, NightLimit |-> 55],
       [Station |-> 2, Name |-> "Colony", Type |-> "Residential",
        City |-> "Delhi", DayLimit |-> 55, NightLimit |-> 45],
       [Station |-> 3, Name |-> "Harbour", Type |-> "Residential",
        City |-> "Mumbai", DayLimit |-> 55, NightLimit |-> 45] >>

\* the cities and zone types, in sorted order
SortedCities == <<"Delhi", "Mumbai">>
SortedTypes == <<"Commercial", "Residential">>

\* the rows a data/station_month.csv is made of: a reading at its limits, above
\* the night limit, above the day limit and above both, in two months, two
\* zone types and two cities
ReadingRows ==
    { [Station |-> 1, Month |-> 5, Day |-> 66, Night |-> 56],
      [Station |-> 2, Month |-> 5, Day |-> 55, Night |-> 45],
      [Station |-> 2, Month |-> 6, Day |-> 55, Night |-> 56],
      [Station |-> 1, Month |-> 6, Day |-> 55, Night |-> 56],
      [Station |-> 2, Month |-> 6, Day |-> 66, Night |-> 56],
      [Station |-> 3, Month |-> 6, Day |-> 66, Night |-> 45],
      [Station |-> 1, Month |-> 5, Day |-> 55, Night |-> 45],
      [Station |-> 3, Month |-> 5, Day |-> 55, Night |-> 45] }

\* the files data/station_month.csv of at most MaxRows rows, one reading for
\* a station and month
MonthlyData ==
    UNION {{f \in [1 .. n -> ReadingRows] :
               \A i, j \in 1 .. n :
                   (f[i].Station = f[j].Station /\ f[i].Month = f[j].Month)
                       => i = j}
           : n \in 1 .. MaxRows}

RECURSIVE MatchStation(_, _)
\* the rows of the merge for one reading: one per station row with its key
MatchStation(reading, stations) ==
    IF stations = <<>> THEN <<>>
    ELSE LET s == Head(stations)
         IN (IF s.Station = reading.Station
             THEN << [Station |-> reading.Station, Month |-> reading.Month,
                      Day |-> reading.Day, Night |-> reading.Night,
                      Name |-> s.Name, Type |-> s.Type, City |-> s.City,
                      DayLimit |-> s.DayLimit, NightLimit |-> s.NightLimit] >>
             ELSE <<>>) \o MatchStation(reading, Tail(stations))

RECURSIVE Merge(_, _)
\* pd.merge(monthly_data, stations_df, on='Station'): the inner join
Merge(monthly_data, stations) ==
    IF monthly_data = <<>> THEN <<>>
    ELSE MatchStation(Head(monthly_data), stations)
         \o Merge(Tail(monthly_data), stations)

\* the frame with its RangeIndex
WithIndex(rows) ==
    [i \in 1 .. Len(rows) |->
        [index |-> i - 1, Station |-> rows[i].Station, Month |-> rows[i].Month,
         Day |-> rows[i].Day, Night |-> rows[i].Night, Name |-> rows[i].Name,
         Type |-> rows[i].Type, City |-> rows[i].City,
         DayLimit |-> rows[i].DayLimit,
         NightLimit |-> rows[i].NightLimit]]

load_data(monthly_data) == WithIndex(Merge(monthly_data, stations_df))

SeqToSet(s) == {s[i] : i \in 1 .. Len(s)}

\* sorted(df['City'].unique())
CityOptions(frame) ==
    SelectSeq(SortedCities, LAMBDA c : c \in SeqToSet(Column(frame, "City")))

\* zone_types = sorted(df['Type'].unique())
zone_types(frame) ==
    SelectSeq(SortedTypes, LAMBDA t : t \in SeqToSet(Column(frame, "Type")))

----------------------------------------------------------------------------
(* The period sliders *)

\* what a select_slider was registered with in the last run, and its value
Registered(opts, dflt, v) == [opts |-> opts, dflt |-> dflt, val |-> v]

\* a slider the last run did not reach
NoWidget == [opts |-> {}, dflt |-> 0, val |-> 0]

NoSession ==
    [before_start |-> NoWidget, before_end |-> NoWidget,
     after_start |-> NoWidget, after_end |-> NoWidget]

\* st.select_slider raises when it is given no options, or a value= that is
\* not one of its options
SliderRaises(opts, dflt) == opts = {} \/ dflt \notin opts

\* The value a select_slider returns.  A slider registered again with the
\* options and default of the last run keeps the value the user gave it; with
\* other options it is a new widget at its default; with the same options and
\* another default it is either, by whether the widget's identity takes in
\* the default.
SliderValues(w, opts, dflt) ==
    IF w = NoWidget \/ w.opts # opts THEN {dflt}
    ELSE IF w.dflt = dflt THEN {w.val}
    ELSE {w.val, dflt}

BeforeStartOptions(month) == Range(1, month)
BeforeStartDefault(month) == Max(1, month - 3)
\* the end slider's options running through the selected month
BeforeEndOptionsThroughMonth(start, month) == Range(start, month + 1)
BeforeEndOptions(start, month) == Range(start, month)
BeforeEndDefault(month) == month - 1
AfterStartOptions(month) == Range(month + 1, 13)
AfterStartDefault(month) == month + 1
AfterEndOptions(start) == Range(start, 13)
AfterEndDefault(month) == Min(12, month + 3)

\* The sidebar's four period sliders, run in order for the selected month
\* against the session of the last run: the sessions the run can leave, each
\* with the slider that raised ("none" when all four returned).  A slider
\* the run did not reach is no longer in the session.
AfterEndRuns(month, old, s) ==
    LET opts == AfterEndOptions(s.after_start.val)
        dflt == AfterEndDefault(month)
    IN IF SliderRaises(opts, dflt)
       THEN {[session |-> s, raised |-> "after_end"]}
       ELSE {[session |-> [s EXCEPT !.after_end = Registered(opts, dflt, v)],
              raised |-> "none"] : v \in SliderValues(old.after_end, opts, dflt)}

AfterStartRuns(month, old, s) ==
    LET opts == AfterStartOptions(month)
        dflt == AfterStartDefault(month)
    IN IF SliderRaises(opts, dflt)
       THEN {[session |-> s, raised |-> "after_start"]}
       ELSE UNION {AfterEndRuns(month, old,
                       [s EXCEPT !.after_start = Registered(opts, dflt, v)])
                   : v \in SliderValues(old.after_start, opts, dflt)}

BeforeEndRuns(month, old, s) ==
    LET opts == BeforeEndOptions(s.before_start.val, month)
        dflt == BeforeEndDefault(month)
    IN IF SliderRaises(opts, dflt)
       THEN {[session |-> s, raised |-> "before_end"]}
       ELSE UNION {AfterStartRuns(month, old,
                       [s EXCEPT !.before_end = Registered(opts, dflt, v)])
                   : v \in SliderValues(old.before_end, opts, dflt)}

PeriodSliders(month, old) ==
    LET opts == BeforeStartOptions(month)
        dflt == BeforeStartDefault(month)
    IN IF SliderRaises(opts, dflt)
       THEN {[session |-> NoSession, raised |-> "before_start"]}
       ELSE UNION {BeforeEndRuns(month, old,
                       [NoSession EXCEPT !.before_start = Registered(opts, dflt, v)])
                   : v \in SliderValues(old.before_start, opts, dflt)}

----------------------------------------------------------------------------
(* Filters and aggregates (parameters: the frame and the widget values) *)

\* df[df['City'] == selected_city]
CityData(frame, city) == SelectSeq(frame, LAMBDA r : r.City = city)

\* city_data[(city_data['Month'] == selected_month) & (Type.isin(selected_types))]
MonthData(frame, city, month, types) ==
    SelectSeq(CityData(frame, city),
              LAMBDA r : r.Month = month /\ r.Type \in types)

\* city_data[(city_data['Month'].isin(months)) & (Type.isin(selected_types))]
PeriodData(frame, city, months, types) ==
    SelectSeq(CityData(frame, city),
              LAMBDA r : r.Month \in SeqToSet(months) /\ r.Type \in types)

\* city_data[city_data['Month'] == selected_month - 1]
PrevMonthData(frame, city, month) ==
    SelectSeq(CityData(frame, city), LAMBDA r : r.Month = month - 1)

\* a reading at its limit counted as a violation
DayViolationAtLimit(r) == r.Day >= r.DayLimit

\* row['Day'] > row['DayLimit']
DayViolation(r) == r.Day > r.DayLimit

\* row['Night'] > row['NightLimit']
NightViolation(r) == r.Night > r.NightLimit

\* 'Day Violation'.astype(int) + 'Night Violation'.astype(int)
TotalViolations(r) == AsInt(DayViolation(r)) + AsInt(NightViolation(r))

\* rows['Day'] > rows['DayLimit'], as a boolean series
DayOver(rows) == [i \in 1 .. Len(rows) |-> DayViolation(rows[i])]

\* rows['Night'] > rows['NightLimit'], as a boolean series
NightOver(rows) == [i \in 1 .. Len(rows) |-> NightViolation(rows[i])]

\* month_data.copy() with the three violation columns
ViolationData(rows) ==
    [i \in 1 .. Len(rows) |->
        [index |-> rows[i].index, Name |-> rows[i].Name, Type |-> rows[i].Type,
         Day |-> rows[i].Day, Night |-> rows[i].Night,
         DayLimit |-> rows[i].DayLimit, NightLimit |-> rows[i].NightLimit,
         DayViolation |-> DayViolation(rows[i]),
         NightViolation |-> NightViolation(rows[i]),
         TotalViolations |-> TotalViolations(rows[i])]]

\* the metric counting violations, two for a record above both limits
ViolationsMetricEvents(rows) ==
    CountTrue(DayOver(rows)) + CountTrue(NightOver(rows))

\* ((Day > DayLimit) | (Night > NightLimit)).sum(): the "Violations" metric
ViolationsMetric(rows) ==
    CountTrue([i \in 1 .. Len(rows) |-> DayOver(rows)[i] \/ NightOver(rows)[i]])

\* ((Day > DayLimit).sum() + (Night > NightLimit).sum()) / (len * 2) * 100
ViolationPerc(rows) ==
    Times(Divide(CountTrue(DayOver(rows)) + CountTrue(NightOver(rows)),
                 Len(rows) * 2), 100)

Permutations(n) ==
    {p \in [1 .. n -> 1 .. n] : \A i, j \in 1 .. n : p[i] = p[j] => i = j}

\* sort_values('Total Violations', ascending=False): the default sort kind is
\* quicksort, which promises no order among rows with equal keys, so every
\* descending arrangement of the rows is a result
SortValuesDescending(rows) ==
    {[i \in 1 .. Len(rows) |-> rows[p[i]]] : p \in
        {q \in Permutations(Len(rows)) :
            \A i, j \in 1 .. Len(rows) :
                i < j => rows[q[i]].TotalViolations >= rows[q[j]].TotalViolations}}

\* violation_data.groupby('Type').agg(sum of the three columns).reset_index()
ZoneViolations(rows) ==
    LET present == SelectSeq(SortedTypes,
                       LAMBDA t : t \in SeqToSet(Column(rows, "Type")))
        Of(t) == SelectSeq(rows, LAMBDA r : r.Type = t)
    IN [i \in 1 .. Len(present) |->
          [Type |-> present[i],
           DayViolation |-> CountTrue(Column(Of(present[i]), "DayViolation")),
           NightViolation |-> CountTrue(Column(Of(present[i]), "NightViolation")),
           TotalViolations |-> SumSeq(Column(Of(present[i]), "TotalViolations"))]]

----------------------------------------------------------------------------
(* What a completed run computes, from the state it left *)

before_start == session.before_start.val
before_end == session.before_end.val
after_start == session.after_start.val
after_end == session.after_end.val

\* the last run went through the whole script
Completed == raised = "none"

before_months == RangeList(before_start, before_end + 1)
after_months == RangeList(after_start, after_end + 1)
comparison_months == before_months \o <<selected_month>> \o after_months

city_data == CityData(df, selected_city)
month_data == MonthData(df, selected_city, selected_month, selected_types)
prev_month_data == PrevMonthData(df, selected_city, selected_month)

avg_day == Mean(Column(month_data, "Day"))
avg_night == Mean(Column(month_data, "Night"))
day_change == Minus(avg_day, Mean(Column(prev_month_data, "Day")))
night_change == Minus(avg_night, Mean(Column(prev_month_data, "Night")))

\* st.metric(label, value) / st.metric(label, value, delta)
Metric(value, has_delta, delta) ==
    [shown |-> TRUE, value |-> Format1(value), has_delta |-> has_delta,
     delta |-> IF has_delta THEN Format1(delta) ELSE Format1(Frac(0, 1))]

AvgDayMetric == Metric(avg_day, selected_month > 1, day_change)
AvgNightMetric == Metric(avg_night, selected_month > 1, night_change)

violation_perc == ViolationPerc(month_data)
ViolationPercMetric == [shown |-> TRUE, value |-> Format1(violation_perc)]

before_data == PeriodData(df, selected_city, before_months, selected_types)
current_data == MonthData(df, selected_city, selected_month, selected_types)
after_data == PeriodData(df, selected_city, after_months, selected_types)

\* the three metrics of one period column; shown is whether they are drawn
PeriodMetrics(rows, shown) ==
    [shown |-> shown,
     day |-> Format1(Mean(Column(rows, "Day"))),
     night |-> Format1(Mean(Column(rows, "Night"))),
     violations |-> ViolationsMetric(rows)]

BeforeMetrics == PeriodMetrics(before_data, before_data # <<>>)
CurrentMetrics == PeriodMetrics(current_data, TRUE)
AfterMetrics == PeriodMetrics(after_data, after_data # <<>>)

violation_data == ViolationData(month_data)
day_violations == CountTrue(Column(violation_data, "DayViolation"))
night_violations == CountTrue(Column(violation_data, "NightViolation"))
violation_percentage ==
    Times(Divide(day_violations + night_violations, Len(violation_data) * 2), 100)
ViolationRateMetric == [shown |-> TRUE, value |-> Format1(violation_percentage)]
zone_violations == ZoneViolations(violation_data)

----------------------------------------------------------------------------
(* The runs *)

\* One run of the script for the given widget values, against the session
\* `old` of the last run.
Run(city, month, types, old) ==
    \E out \in PeriodSliders(month, old) :
        /\ selected_city' = city
        /\ selected_month' = month
        /\ selected_types' = types
        /\ session' = out.session
        /\ raised' = out.raised
        /\ IF out.raised = "none"
           THEN violation_table' \in SortValuesDescending(
                    ViolationData(MonthData(df, city, month, types)))
           ELSE violation_table' = <<>>
        /\ UNCHANGED df

\* a data/station_month.csv with a reading for each station and month
SampleMonthlyData ==
    << [Station |-> 1, Month |-> 5, Day |-> 66, Night |-> 56],
       [Station |-> 2, Month |-> 5, Day |-> 55, Night |-> 45],
       [Station |-> 2, Month |-> 6, Day |-> 55, Night |-> 56],
       [Station |-> 1, Month |-> 6, Day |-> 55, Night |-> 56],
       [Station |-> 3, Month |-> 6, Day |-> 66, Night |-> 45],
       [Station |-> 3, Month |-> 5, Day |-> 55, Night |-> 45] >>

\* the first run over one of the given files: every widget at its default
FirstRun(files) ==
    /\ df \in {load_data(m) : m \in files}
    /\ selected_city = CityOptions(df)[1]
    /\ selected_month = 6
    /\ selected_types = SeqToSet(zone_types(df))
    /\ \E out \in PeriodSliders(6, NoSession) :
          /\ session = out.session
          /\ raised = out.raised
    /\ violation_table \in SortValuesDescending(
           ViolationData(MonthData(df, selected_city, 6, selected_types)))

ChangeCity ==
    \E c \in SeqToSet(CityOptions(df)) \ {selected_city} :
        Run(c, selected_month, selected_types, session)

ChangeMonth ==
    \E m \in Range(1, 13) \ {selected_month} :
        Run(selected_city, m, selected_types, session)

ChangeTypes ==
    \E t \in (SUBSET SeqToSet(zone_types(df))) \ {selected_types} :
        Run(selected_city, selected_month, t, session)

ChangeBeforeStart ==
    /\ session.before_start # NoWidget
    /\ \E v \in session.before_start.opts \ {before_start} :
          Run(selected_city, selected_month, selected_types,
              [session EXCEPT !.before_start.val = v])

ChangeBeforeEnd ==
    /\ session.before_end # NoWidget
    /\ \E v \in session.before_end.opts \ {before_end} :
          Run(selected_city, selected_month, selected_types,
              [session EXCEPT !.before_end.val = v])

ChangeAfterStart ==
    /\ session.after_start # NoWidget
    /\ \E v \in session.after_start.opts \ {after_start} :
          Run(selected_city, selected_month, selected_types,
              [session EXCEPT !.after_start.val = v])

ChangeAfterEnd ==
    /\ session.after_end # NoWidget
    /\ \E v \in session.after_end.opts \ {after_end} :
          Run(selected_city, selected_month, selected_types,
              [session EXCEPT !.after_end.val = v])

Next ==
    \/ ChangeCity
    \/ ChangeMonth
    \/ ChangeTypes
    \/ ChangeBeforeStart
    \/ ChangeBeforeEnd
    \/ ChangeAfterStart
    \/ ChangeAfterEnd

\* the dashboard over the sample file, every widget in use
Init == FirstRun({SampleMonthlyData})

Spec == Init /\ [][Next]_vars

\* the dashboard over every file of at most MaxRows rows, the main filters in
\* use and the period sliders left alone
FilterInit == FirstRun(MonthlyData)

FilterNext ==
    \/ ChangeCity
    \/ ChangeMonth
    \/ ChangeTypes

FilterSpec == FilterInit /\ [][FilterNext]_vars

----------------------------------------------------------------------------
(* Period resolution *)

\* C1: after every run that resolves the periods, every month of
\* before_months is below selected_month, every month of after_months is
\* above it, and all of them lie in 1..12, so that comparison_months runs
\* upwards through one year.
C1_PeriodOrdering ==
    Completed =>
        /\ \A i \in DOMAIN before_months :
              1 <= before_months[i] /\ before_months[i] < selected_month
        /\ \A i \in DOMAIN after_months :
              selected_month < after_months[i] /\ after_months[i] <= 12
        /\ \A i, j \in DOMAIN comparison_months :
              i < j => comparison_months[i] < comparison_months[j]

\* a run with both periods moved off their defaults by the user
C1_Witness ==
    /\ Completed
    /\ selected_month = 7
    /\ before_months = <<2, 3, 4>>
    /\ after_months = <<9, 10, 11, 12>>

\* C2: with selected_month = 1 the run completes with an empty before range,
\* and with selected_month = 12 it completes with an empty after range.
C2_BoundaryMonths ==
    /\ selected_month = 1 => Completed /\ before_months = <<>>
    /\ selected_month = 12 => Completed /\ after_months = <<>>

\* C10: the default offered for the end slider of each period is one of the
\* slider's options, whatever start the user chose.
C10_EndDefaultsInOptions ==
    /\ session.before_start # NoWidget =>
          BeforeEndDefault(selected_month)
              \in BeforeEndOptions(before_start, selected_month)
    /\ session.after_start # NoWidget =>
          AfterEndDefault(selected_month) \in AfterEndOptions(after_start)

----------------------------------------------------------------------------
(* Violations *)

\* the rows of the current month's record set that break a limit
ViolatingRecords ==
    {i \in DOMAIN month_data :
        month_data[i].Day > month_data[i].DayLimit
        \/ month_data[i].Night > month_data[i].NightLimit}

DayEvents ==
    {i \in DOMAIN month_data : month_data[i].Day > month_data[i].DayLimit}

NightEvents ==
    {i \in DOMAIN month_data : month_data[i].Night > month_data[i].NightLimit}

\* C4: over the N records of the current month the violation rate is
\* (day violations + night violations) / 2N * 100 and lies in 0..100; with
\* N = 0 no rate is reported.
C4_ViolationRate ==
    Completed =>
        LET n == Len(month_data)
            events == Cardinality(DayEvents) + Cardinality(NightEvents)
        IN /\ n > 0 =>
                /\ FracEq(violation_perc, Frac(events * 100, 2 * n))
                /\ FracEq(violation_percentage, Frac(events * 100, 2 * n))
                /\ 0 <= events * 100 /\ events * 100 <= 100 * 2 * n
           /\ n = 0 =>
                /\ ~ViolationPercMetric.shown
                /\ ~ViolationRateMetric.shown

\* C6: in the violation report a record's Day Violation is Day > DayLimit, its
\* Night Violation is Night > NightLimit, and its Total Violations is the
\* number of the two that hold.
C6_StrictClassification ==
    Completed =>
        \A i \in DOMAIN violation_table :
            LET r == violation_table[i]
            IN /\ r.DayViolation <=> r.Day > r.DayLimit
               /\ r.NightViolation <=> r.Night > r.NightLimit
               /\ r.TotalViolations \in {0, 1, 2}
               /\ r.TotalViolations =
                     Cardinality({f \in {"day", "night"} :
                         \/ f = "day" /\ r.DayViolation
                         \/ f = "night" /\ r.NightViolation})

\* a report, for a month the user chose, with a record at its day limit and a
\* record above it
C6_Witness ==
    /\ Completed
    /\ selected_month = 5
    /\ \E i \in DOMAIN violation_table :
          /\ violation_table[i].Day = violation_table[i].DayLimit
          /\ ~violation_table[i].DayViolation
    /\ \E i \in DOMAIN violation_table :
          /\ violation_table[i].Day > violation_table[i].DayLimit
          /\ violation_table[i].DayViolation

\* C7: the Violations metric of a period counts the records that break a
\* limit, each once; the day and night counts are kept apart, with
\* records <= day + night <= 2 * records; and each row of the roll-up by Type
\* has Total Violations = Day Violation + Night Violation.
C7_RecordsAndEvents ==
    Completed =>
        /\ CurrentMetrics.violations = Cardinality(ViolatingRecords)
        /\ day_violations = Cardinality(DayEvents)
        /\ night_violations = Cardinality(NightEvents)
        /\ CurrentMetrics.violations <= day_violations + night_violations
        /\ day_violations + night_violations <= 2 * CurrentMetrics.violations
        /\ BeforeMetrics.shown =>
              BeforeMetrics.violations =
                 Cardinality({i \in DOMAIN before_data :
                     before_data[i].Day > before_data[i].DayLimit
                     \/ before_data[i].Night > before_data[i].NightLimit})
        /\ AfterMetrics.shown =>
              AfterMetrics.violations =
                 Cardinality({i \in DOMAIN after_data :
                     after_data[i].Day > after_data[i].DayLimit
                     \/ after_data[i].Night > after_data[i].NightLimit})
        /\ \A i \in DOMAIN zone_violations :
              LET z == zone_violations[i]
                  of == {j \in DOMAIN month_data : month_data[j].Type = z.Type}
              IN /\ z.TotalViolations = z.DayViolation + z.NightViolation
                 /\ z.DayViolation = Cardinality(of \cap DayEvents)
                 /\ z.NightViolation = Cardinality(of \cap NightEvents)

\* a month with a record above both limits and a record above one, after a
\* month with a record above both
C7_Witness ==
    /\ Completed
    /\ CurrentMetrics.violations = 2
    /\ day_violations = 1
    /\ night_violations = 2
    /\ Len(zone_violations) = 2
    /\ BeforeMetrics.shown /\ BeforeMetrics.violations = 1

\* C9: the violation report is in descending order of Total Violations, and
\* records with equal Total Violations are in their input order.
C9_StableOrder ==
    Completed =>
        \A i, j \in DOMAIN violation_table :
            i < j =>
                /\ violation_table[i].TotalViolations
                      >= violation_table[j].TotalViolations
                /\ violation_table[i].TotalViolations
                      = violation_table[j].TotalViolations
                   => violation_table[i].index < violation_table[j].index

----------------------------------------------------------------------------
(* Averages and deltas *)

\* the previous month's rows under the filter of the current month's
PrevMonthSameFilter ==
    MonthData(df, selected_city, selected_month - 1, selected_types)

\* equal as reported values: both nan, or the same number
SameValue(x, y) == (x.nan /\ y.nan) \/ FracEq(x, y)

\* C5: for selected_month > 1, where both months have records under the
\* filter, the day and night deltas are the mean over the records of (city,
\* types, month) minus the mean over the records of (city, types, month - 1);
\* for selected_month = 1 there is no delta.
C5_DeltaSameFilter ==
    Completed =>
        /\ (selected_month > 1 /\ month_data # <<>> /\ PrevMonthSameFilter # <<>>) =>
              /\ AvgDayMetric.has_delta /\ AvgNightMetric.has_delta
              /\ SameValue(day_change,
                     Minus(Mean(Column(month_data, "Day")),
                           Mean(Column(PrevMonthSameFilter, "Day"))))
              /\ SameValue(night_change,
                     Minus(Mean(Column(month_data, "Night")),
                           Mean(Column(PrevMonthSameFilter, "Night"))))
        /\ selected_month = 1 =>
              ~AvgDayMetric.has_delta /\ ~AvgNightMetric.has_delta

\* C8: where a filter yields no rows, its averages and its delta are not
\* reported: for the current month, the previous month of the delta, and the
\* before and after periods.
C8_EmptyIsAbsent ==
    Completed =>
        /\ month_data = <<>> =>
              /\ ~AvgDayMetric.shown /\ ~AvgNightMetric.shown
              /\ ~CurrentMetrics.shown
        /\ (selected_month > 1 /\ prev_month_data = <<>>) =>
              ~AvgDayMetric.has_delta /\ ~AvgNightMetric.has_delta
        /\ before_data = <<>> => ~BeforeMetrics.shown
        /\ after_data = <<>> => ~AfterMetrics.shown

====
